---- MODULE Spec2Model ----
(***************************************************************************)
(* State-vector quantum circuit simulator (src/quantum_simulator.py).      *)
(*                                                                         *)
(* Number representation.  The register holds complex128 amplitudes.  The  *)
(* gates of the program have entries in Z[i]/sqrt(2^j), so every amplitude *)
(* the program can compute is a Gaussian integer over the square root of a *)
(* natural number.  An amplitude vector is modelled exactly as             *)
(*     [amp |-> (index -> <<re, im>>), den |-> d]                          *)
(* standing for amp[i] / sqrt(d).  Floating-point rounding is not          *)
(* modelled: "probability 1" below means exactly 1.                        *)
(*                                                                         *)
(* Bit strings ("010") are sequences of the digits 0 and 1 (<<0, 1, 0>>).  *)
(*                                                                         *)
(* Paraconsistent reasoner (src/lab/trinary_extended.py).  The dict _props *)
(* is the sequence of its values in insertion order.  A confidence is in   *)
(* tenths (1.0 is 10).  A contradiction entry, an f-string in the source,  *)
(* is the pair of its fixed text and the confidence it embeds.             *)
(***************************************************************************)
EXTENDS Integers, Sequences, FiniteSets, TLC

\* Bounds of the model.
MaxQubits == 3
MaxOps == 3
MaxShots == 2
MaxListLen == 2
\* Contradiction and evidence entries held by the reasoner, all propositions
\* together.
MaxEntries == 2

VARIABLES num_qubits, state, ops, last, _props, reply

vars == <<num_qubits, state, ops, last, _props, reply>>

circuit == <<num_qubits, state, ops, last>>
reasoner == <<_props, reply>>

----------------------------------------------------------------------------
\* Complex arithmetic on <<re, im>> pairs.

CZero == <<0, 0>>
COne == <<1, 0>>
CAdd(a, b) == <<a[1] + b[1], a[2] + b[2]>>
CMul(a, b) == <<a[1] * b[1] - a[2] * b[2], a[1] * b[2] + a[2] * b[1]>>
\* np.abs(z) ** 2
Abs2(a) == a[1] * a[1] + a[2] * a[2]

RECURSIVE SumUpTo(_, _)
\* f[0] + ... + f[k]
SumUpTo(f, k) == IF k < 0 THEN 0 ELSE f[k] + SumUpTo(f, k - 1)

RECURSIVE CSumUpTo(_, _)
CSumUpTo(f, k) == IF k < 0 THEN CZero ELSE CAdd(f[k], CSumUpTo(f, k - 1))

Range(s) == {s[i] : i \in DOMAIN s}

RECURSIVE Reduce(_, _)
\* The same vector with the common factor 2 cancelled between the
\* numerators and sqrt(den).
Reduce(amp, den) ==
    IF den % 4 = 0 /\ \A i \in DOMAIN amp : amp[i][1] % 2 = 0 /\ amp[i][2] % 2 = 0
    THEN Reduce([i \in DOMAIN amp |-> <<amp[i][1] \div 2, amp[i][2] \div 2>>], den \div 4)
    ELSE [amp |-> amp, den |-> den]

----------------------------------------------------------------------------
\* Gate matrices: [m |-> rows of <<re, im>>, den |-> d] stands for m / sqrt(d).

_H == [m |-> << <<COne, COne>>, <<COne, <<-1, 0>> >> >>, den |-> 2]
_X == [m |-> << <<CZero, COne>>, <<COne, CZero>> >>, den |-> 1]
_CNOT == [m |-> << <<COne, CZero, CZero, CZero>>,
                   <<CZero, COne, CZero, CZero>>,
                   <<CZero, CZero, CZero, COne>>,
                   <<CZero, CZero, COne, CZero>> >>, den |-> 1]

\* Matrices a caller hands to apply_custom: the phase gate S, the
\* controlled-Z gate, and a 2 x 4 matrix (not square).
SGate == [m |-> << <<COne, CZero>>, <<CZero, <<0, 1>> >> >>, den |-> 1]
CZGate == [m |-> << <<COne, CZero, CZero, CZero>>,
                    <<CZero, COne, CZero, CZero>>,
                    <<CZero, CZero, COne, CZero>>,
                    <<CZero, CZero, CZero, <<-1, 0>> >> >>, den |-> 1]
NonSquare == [m |-> << <<COne, CZero, CZero, CZero>>,
                       <<CZero, COne, CZero, CZero>> >>, den |-> 1]
CustomUnitaries == [S |-> SGate, CZ |-> CZGate, NonSquare |-> NonSquare]

----------------------------------------------------------------------------
\* Index arithmetic of reshape([2] * n) / transpose / reshape(-1).

\* The bit of axis `pos` (0 is the leftmost, most significant) of the
\* flat index x of a tensor with `width` axes of size 2.
Bit(x, pos, width) == (x \div (2 ^ (width - 1 - pos))) % 2

\* Format with the least significant bit first.
FormatLittleEndian(index, width) == [i \in 1..width |-> Bit(index, width - i, width)]

\* format(index, "0{width}b")
Format(index, width) == [i \in 1..width |-> Bit(index, i - 1, width)]

RECURSIVE ParseBin(_)
\* int(bitstring, 2)
ParseBin(bits) ==
    IF bits = <<>> THEN 0
    ELSE 2 * ParseBin(SubSeq(bits, 1, Len(bits) - 1)) + bits[Len(bits)]

\* Permutation with the operand qubits taken in ascending order, not in the
\* order given.
PermutationAscending(qubits, n) ==
    [i \in 1..Len(qubits) |->
        CHOOSE x \in Range(qubits) : Cardinality({y \in Range(qubits) : y < x}) = i - 1]
        \o SelectSeq([i \in 1..n |-> i - 1], LAMBDA i : i \notin Range(qubits))

\* list(qubits) + [i for i in range(n) if i not in qubits]
Permutation(qubits, n) ==
    qubits \o SelectSeq([i \in 1..n |-> i - 1], LAMBDA i : i \notin Range(qubits))

\* Argsort that hands the permutation back instead of its inverse.
ArgsortIdentity(perm) == perm

\* np.argsort(permutation)
Argsort(perm) ==
    [m \in 1..Len(perm) |-> (CHOOSE k \in 1..Len(perm) : perm[k] = m - 1) - 1]

\* np.transpose(tensor, perm) on the flat vector: axis k of the result is
\* axis perm[k] of the argument.
Transpose(vec, perm, n) ==
    [j \in 0..(2 ^ n - 1) |->
        vec[SumUpTo([k \in 0..(n - 1) |-> Bit(j, k, n) * 2 ^ (n - 1 - perm[k + 1])], n - 1)]]

----------------------------------------------------------------------------
\* NormaliseQubits with the range check "qubit < n" only: a negative index
\* counts from the end, as Python's indexing does.
NormaliseQubitsWrap(omitted, qubits, n) ==
    LET wrapped == [i \in DOMAIN qubits |-> IF qubits[i] < 0 THEN qubits[i] + n ELSE qubits[i]]
    IN  IF omitted THEN [error |-> "none", tuple |-> [i \in 1..n |-> i - 1]]
        ELSE IF Len(qubits) # Cardinality(Range(qubits))
             THEN [error |-> "ValueError", tuple |-> <<>>]
        ELSE IF \E i \in DOMAIN qubits : ~(0 <= wrapped[i] /\ wrapped[i] < n)
             THEN [error |-> "IndexError", tuple |-> <<>>]
        ELSE [error |-> "none", tuple |-> wrapped]

\* QuantumCircuit._normalise_qubits: the tuple, or the exception raised.
\* `omitted` stands for qubits=None.
NormaliseQubits(omitted, qubits, n) ==
    IF omitted THEN [error |-> "none", tuple |-> [i \in 1..n |-> i - 1]]
    ELSE IF Len(qubits) # Cardinality(Range(qubits))
         THEN [error |-> "ValueError", tuple |-> <<>>]
    ELSE IF \E i \in DOMAIN qubits : ~(0 <= qubits[i] /\ qubits[i] < n)
         THEN [error |-> "IndexError", tuple |-> <<>>]
    ELSE [error |-> "none", tuple |-> qubits]

\* unitary @ reshaped, then the inverse transposition (lines 252-260).
MatMulRestore(st, unitary, qubit_tuple, n) ==
    LET k == Len(qubit_tuple)
        cols == 2 ^ (n - k)
        permutation == Permutation(qubit_tuple, n)
        tensor == Transpose(st.amp, permutation, n)
        updated == [j \in 0..(2 ^ n - 1) |->
                      CSumUpTo([r \in 0..(2 ^ k - 1) |->
                                  CMul(unitary.m[(j \div cols) + 1][r + 1],
                                       tensor[r * cols + (j % cols)])], 2 ^ k - 1)]
        restored == Transpose(updated, Argsort(permutation), n)
    IN  Reduce(restored, st.den * unitary.den)

\* QuantumCircuit._apply_unitary: the exception raised and the state after.
ApplyUnitary(st, unitary, qubits, n) ==
    IF \E r \in DOMAIN unitary.m : Len(unitary.m[r]) # Len(unitary.m)
    THEN [error |-> "ValueError", state |-> st]
    ELSE LET norm == NormaliseQubits(FALSE, qubits, n)
         IN  IF norm.error # "none" THEN [error |-> norm.error, state |-> st]
             ELSE IF Len(unitary.m) # 2 ^ Len(norm.tuple)
                  THEN [error |-> "ValueError", state |-> st]
             ELSE [error |-> "none",
                   state |-> MatMulRestore(st, unitary, norm.tuple, n)]

----------------------------------------------------------------------------
\* Probabilities, sampling and collapse.

\* a < b for Python strings of the digits 0 and 1.
LexLess(a, b) ==
    \/ \E i \in 1..Len(a) :
          /\ i <= Len(b)
          /\ a[i] < b[i]
          /\ \A j \in 1..(i - 1) : a[j] = b[j]
    \/ /\ Len(a) < Len(b)
       /\ \A j \in 1..Len(a) : a[j] = b[j]

RECURSIVE Sorted(_)
\* sorted(keys), by insertion
Sorted(keys) ==
    IF keys = {} THEN <<>>
    ELSE LET key == CHOOSE x \in keys : TRUE
             rest == Sorted(keys \ {key})
         IN  SelectSeq(rest, LAMBDA x : LexLess(x, key)) \o <<key>>
                 \o SelectSeq(rest, LAMBDA x : ~LexLess(x, key))

RECURSIVE KeyedUpTo(_, _, _)
\* The dict {format(i, "0{width}b"): values[i]} over i in range(index + 1),
\* as a function on its keys: a later entry replaces an earlier one under
\* the same key.
KeyedUpTo(values, width, index) ==
    IF index < 0 THEN <<>>
    ELSE (Format(index, width) :> values[index]) @@ KeyedUpTo(values, width, index - 1)

\* The dict {format(index, "0{width}b"): values[index]} over index in
\* range(2^width).
KeyedByFormat(values, width) == KeyedUpTo(values, width, 2 ^ width - 1)

\* _distribution_from_probabilities: a probability is <<numerator, den>>.
DistributionFromProbabilities(probabilities, num, den) ==
    KeyedByFormat([index \in 0..(2 ^ num - 1) |-> <<probabilities[index], den>>], num)

\* QuantumCircuit.probabilities: the exception raised and the mapping returned.
Probabilities(st, omitted, qubits, n) ==
    LET norm == NormaliseQubits(omitted, qubits, n)
        qubit_tuple == norm.tuple
        k == Len(qubit_tuple)
        cols == 2 ^ (n - k)
        tensor == Transpose(st.amp, Permutation(qubit_tuple, n), n)
        marginal == [r \in 0..(2 ^ k - 1) |->
                        SumUpTo([c \in 0..(cols - 1) |-> Abs2(tensor[r * cols + c])],
                                cols - 1)]
    IN  IF norm.error # "none" THEN [error |-> norm.error, dist |-> <<>>]
        ELSE IF qubit_tuple = <<>>
             THEN [error |-> "none",
                   dist |-> KeyedByFormat([index \in 0..(2 ^ n - 1) |->
                                              <<Abs2(st.amp[index]), st.den>>], n)]
        ELSE [error |-> "none",
              dist |-> DistributionFromProbabilities(marginal, k, st.den)]

\* ChoiceSupport of rng.choice without p=: every index can be drawn.
ChoiceSupportUniform(dist, bitstrings) == 0..(Len(bitstrings) - 1)

\* rng.choice(len(bitstrings), size=shots, p=probabilities): the indices a
\* draw can return, those of non-zero probability.
ChoiceSupport(dist, bitstrings) ==
    {i \in 0..(Len(bitstrings) - 1) : dist[bitstrings[i + 1]][1] > 0}

\* Renormalise with the division left out.
RenormaliseSkipped(collapsed, den, n) == den

\* The renormalisation of line 235: collapsed / norm is collapsed over the
\* square root of its own squared length; a zero vector is left as it is.
Renormalise(collapsed, den, n) ==
    LET norm2 == SumUpTo([i \in 0..(2 ^ n - 1) |-> Abs2(collapsed[i])], 2 ^ n - 1)
    IN  IF norm2 > 0 THEN norm2 ELSE den

\* CollapseState without the inverse transposition of lines 237-239: the
\* collapsed tensor is installed in the permuted qubit order.
CollapseStateUnrestored(st, qubits, bitstring, n) ==
    IF qubits = <<>>
    THEN [amp |-> [i \in 0..(2 ^ n - 1) |-> IF i = ParseBin(bitstring) THEN COne ELSE CZero],
          den |-> 1]
    ELSE LET k == Len(qubits)
             cols == 2 ^ (n - k)
             tensor == Transpose(st.amp, Permutation(qubits, n), n)
             outcome_index == ParseBin(bitstring)
             collapsed == [j \in 0..(2 ^ n - 1) |->
                             IF j \div cols = outcome_index THEN tensor[j] ELSE CZero]
         IN  Reduce(collapsed, Renormalise(collapsed, st.den, n))

\* QuantumCircuit._collapse_state: the state it installs.
CollapseState(st, qubits, bitstring, n) ==
    IF qubits = <<>>
    THEN [amp |-> [i \in 0..(2 ^ n - 1) |-> IF i = ParseBin(bitstring) THEN COne ELSE CZero],
          den |-> 1]
    ELSE LET k == Len(qubits)
             cols == 2 ^ (n - k)
             permutation == Permutation(qubits, n)
             tensor == Transpose(st.amp, permutation, n)
             outcome_index == ParseBin(bitstring)
             collapsed == [j \in 0..(2 ^ n - 1) |->
                             IF j \div cols = outcome_index THEN tensor[j] ELSE CZero]
             restored == Transpose(collapsed, Argsort(permutation), n)
         IN  Reduce(restored, Renormalise(collapsed, st.den, n))

\* MeasurementResult.most_likely: max over (count, bitstring) pairs.
MostLikely(counts) ==
    CHOOSE s \in DOMAIN counts :
        \A t \in DOMAIN counts \ {s} :
            \/ counts[t] < counts[s]
            \/ counts[t] = counts[s] /\ LexLess(t, s)

----------------------------------------------------------------------------
\* Trinary logic and the reasoner's propositions.

T_TRUE == 1
UNKNOWN == 0
T_FALSE == -1

Min(a, b) == IF a <= b THEN a ELSE b
Max(a, b) == IF a >= b THEN a ELSE b

t_not(a) == -a
t_and(a, b) == Min(a, b)
t_or(a, b) == Max(a, b)
t_implies(a, b) == Max(T_FALSE, Min(T_TRUE, 1 - a + b))

\* TrinaryProposition(statement), with the dataclass defaults
TrinaryProposition(statement) ==
    [statement |-> statement, truth |-> UNKNOWN, confidence |-> 5,
     evidence |-> <<>>, contradictions |-> <<>>]

\* TrinaryProposition.assert_true
PropAssertTrue(prop, confidence, evidence) ==
    [prop EXCEPT !.truth = T_TRUE, !.confidence = confidence,
                 !.evidence = IF evidence # "" THEN Append(@, evidence) ELSE @]

\* TrinaryProposition.assert_false
PropAssertFalse(prop, confidence, evidence) ==
    [prop EXCEPT !.truth = T_FALSE, !.confidence = confidence,
                 !.evidence = IF evidence # "" THEN Append(@, evidence) ELSE @]

\* TrinaryProposition.contradict
Contradict(prop, claim) ==
    [prop EXCEPT !.contradictions = Append(@, claim),
                 !.confidence = IF prop.truth # UNKNOWN THEN Max(0, @ - 3) ELSE @]

\* Quarantine that resolves the proposition: its contradictions are dropped.
QuarantineResolving(prop) ==
    [prop EXCEPT !.truth = UNKNOWN, !.confidence = 0, !.contradictions = <<>>]

\* TrinaryProposition.quarantine
Quarantine(prop) == [prop EXCEPT !.truth = UNKNOWN, !.confidence = 0]

\* statement in self._props
Known(props, statement) == \E i \in DOMAIN props : props[i].statement = statement

\* self._props[statement] is props[IndexOf(props, statement)]
IndexOf(props, statement) == CHOOSE i \in DOMAIN props : props[i].statement = statement

\* self._props.get(statement, TrinaryProposition(statement))
Get(props, statement) ==
    IF Known(props, statement) THEN props[IndexOf(props, statement)]
    ELSE TrinaryProposition(statement)

\* TrinaryReasoner._get_or_create: the dict after the call
GetOrCreate(props, statement) ==
    IF Known(props, statement) THEN props ELSE Append(props, TrinaryProposition(statement))

\* TrinaryReasoner.assert_true: the dict after the call
ReasonerAssertTrue(props, statement, confidence, evidence) ==
    LET created == GetOrCreate(props, statement)
        i == IndexOf(created, statement)
        prop == IF created[i].truth = T_FALSE
                THEN Contradict(created[i], <<"Previously FALSE, now asserted TRUE", confidence>>)
                ELSE created[i]
    IN  [created EXCEPT ![i] = PropAssertTrue(prop, confidence, evidence)]

\* TrinaryReasoner.assert_false: the dict after the call
ReasonerAssertFalse(props, statement, confidence, evidence) ==
    LET created == GetOrCreate(props, statement)
        i == IndexOf(created, statement)
        prop == IF created[i].truth = T_TRUE
                THEN Contradict(created[i], <<"Previously TRUE, now asserted FALSE", confidence>>)
                ELSE created[i]
    IN  [created EXCEPT ![i] = PropAssertFalse(prop, confidence, evidence)]

\* TrinaryReasoner.contradictions
Contradictions(props) == SelectSeq(props, LAMBDA prop : prop.contradictions # <<>>)

Statements(props) == [i \in DOMAIN props |-> props[i].statement]

\* TrinaryReasoner.quarantine_contradicted: the dict after the call and the
\* list returned
QuarantineContradicted(props) ==
    [props |-> [i \in DOMAIN props |->
                   IF props[i].contradictions # <<>> THEN Quarantine(props[i]) ELSE props[i]],
     quarantined |-> Statements(Contradictions(props))]

\* TrinaryReasoner.evaluate: the exception raised and the value returned;
\* b_stmt = "" stands for None as well.
Evaluate(props, a_stmt, op, b_stmt) ==
    LET a == Get(props, a_stmt).truth
        b == Get(props, b_stmt).truth
    IN  IF op = "NOT" THEN [error |-> "none", value |-> t_not(a)]
        ELSE IF op = "AND" THEN [error |-> "none", value |-> t_and(a, b)]
        ELSE IF op = "OR" THEN [error |-> "none", value |-> t_or(a, b)]
        ELSE IF op = "IMPLIES" THEN [error |-> "none", value |-> t_implies(a, b)]
        ELSE [error |-> "ValueError", value |-> UNKNOWN]

RECURSIVE Entries(_, _)
\* The number of entries of the lists props[1][field], ..., props[k][field].
Entries(props, field) ==
    IF props = <<>> THEN 0
    ELSE Len(props[Len(props)][field]) + Entries(SubSeq(props, 1, Len(props) - 1), field)

\* The reasoner holds no more entries than the bounds allow.
WithinBounds(props) ==
    Entries(props, "contradictions") + Entries(props, "evidence") <= MaxEntries

----------------------------------------------------------------------------
\* Inputs.

QubitIndex == -1..num_qubits

RECURSIVE SeqsUpTo(_, _)
SeqsUpTo(S, k) ==
    IF k = 0 THEN {<<>>}
    ELSE LET shorter == SeqsUpTo(S, k - 1)
         IN  shorter \cup {Append(s, x) : s \in shorter, x \in S}

\* Lists of distinct in-range indices in every order, and lists measure,
\* probabilities and apply_custom must reject: an index below the range, one
\* above it, a duplicate, and an out-of-range index after a valid one.
ValidLists ==
    {qs \in SeqsUpTo(0..(num_qubits - 1), MaxListLen) : Len(qs) = Cardinality(Range(qs))}

BadLists == {<<-1>>, <<num_qubits>>, <<0, 0>>, <<0, num_qubits>>}

QubitLists == ValidLists \cup BadLists

\* The record of the last call: its name, its arguments, the exception it
\* raised ("none": it returned), and what it returned or drew.
NoCall == [op |-> "none", omitted |-> FALSE, qubits |-> <<>>, unitary |-> "none",
           shots |-> 0, error |-> "none", dist |-> <<>>, counts |-> <<>>,
           outcome |-> <<>>, most_likely |-> <<>>]

\* The record of the reasoner's last call: its name, the statement it was
\* about, the exception it raised, and what it returned.
NoReply == [op |-> "none", statement |-> "", error |-> "none", prop |-> <<>>,
            list |-> <<>>, value |-> UNKNOWN]

\* QuantumCircuit.__init__ and TrinaryReasoner.__init__
Init ==
    /\ num_qubits \in 1..MaxQubits
    /\ state = [amp |-> [i \in 0..(2 ^ num_qubits - 1) |-> IF i = 0 THEN COne ELSE CZero],
                den |-> 1]
    /\ ops = 0
    /\ last = NoCall
    /\ _props = <<>>
    /\ reply = NoReply

\* The calling code makes its next call once the last one has come back, up
\* to MaxOps calls.
CanCall == last.op = "none" /\ ops < MaxOps

\* The calling code moves on to its next statement.
Return ==
    /\ last.op # "none"
    /\ last' = NoCall
    /\ UNCHANGED <<num_qubits, state, ops>>

\* The register and the call record once _apply_unitary has come back.
Applied(name, uname, qubits, res) ==
    /\ state' = res.state
    /\ last' = [NoCall EXCEPT !.op = name, !.qubits = qubits, !.unitary = uname,
                              !.error = res.error]
    /\ ops' = ops + 1
    /\ UNCHANGED num_qubits

GateCall(name, unitary, uname, qubits) ==
    Applied(name, uname, qubits, ApplyUnitary(state, unitary, qubits, num_qubits))

\* QuantumCircuit.hadamard
Hadamard(qubit) == GateCall("hadamard", _H, "H", <<qubit>>)

\* QuantumCircuit.pauli_x
PauliX(qubit) == GateCall("pauli_x", _X, "X", <<qubit>>)

\* QuantumCircuit.cnot
Cnot(control, target) ==
    IF control = target
    THEN /\ last' = [NoCall EXCEPT !.op = "cnot", !.qubits = <<control, target>>,
                                   !.unitary = "CNOT", !.error = "ValueError"]
         /\ ops' = ops + 1
         /\ UNCHANGED <<num_qubits, state>>
    ELSE GateCall("cnot", _CNOT, "CNOT", <<control, target>>)

\* QuantumCircuit.apply_custom
ApplyCustom(uname, qubits) == GateCall("apply_custom", CustomUnitaries[uname], uname, qubits)

\* The call record once probabilities has returned or raised.
Queried(omitted, qubits, res) ==
    last' = [NoCall EXCEPT !.op = "probabilities", !.omitted = omitted,
                           !.qubits = qubits, !.error = res.error, !.dist = res.dist]

\* ProbabilitiesCall that keeps the transposed tensor as the register's state.
ProbabilitiesCallInPlace(omitted, qubits) ==
    /\ Queried(omitted, qubits, Probabilities(state, omitted, qubits, num_qubits))
    /\ state' = IF NormaliseQubits(omitted, qubits, num_qubits).error = "none"
                THEN [state EXCEPT !.amp = Transpose(state.amp,
                         Permutation(NormaliseQubits(omitted, qubits, num_qubits).tuple,
                                     num_qubits), num_qubits)]
                ELSE state
    /\ ops' = ops + 1
    /\ UNCHANGED num_qubits

\* QuantumCircuit.probabilities, called
ProbabilitiesCall(omitted, qubits) ==
    /\ Queried(omitted, qubits, Probabilities(state, omitted, qubits, num_qubits))
    /\ ops' = ops + 1
    /\ UNCHANGED <<num_qubits, state>>

\* Lines 199-204 of measure: the qubit tuple or the exception raised for it,
\* the sorted keys of the distribution, and the indices rng.choice can draw.
Distribution(st, omitted, qubits, n) ==
    LET norm == NormaliseQubits(omitted, qubits, n)
        outcome_distribution == Probabilities(st, FALSE, norm.tuple, n).dist
        bitstrings == Sorted(DOMAIN outcome_distribution)
    IN  IF norm.error # "none"
        THEN [error |-> norm.error, qubit_tuple |-> <<>>, bitstrings |-> <<>>,
              support |-> {}]
        ELSE [error |-> "none", qubit_tuple |-> norm.tuple, bitstrings |-> bitstrings,
              support |-> ChoiceSupport(outcome_distribution, bitstrings)]

MeasureRaises(omitted, qubits, shots, error) ==
    /\ last' = [NoCall EXCEPT !.op = "measure", !.omitted = omitted, !.qubits = qubits,
                              !.shots = shots, !.error = error]
    /\ ops' = ops + 1
    /\ UNCHANGED <<num_qubits, state>>

\* Lines 206-213 of measure: the samples before the last one, the counts, and
\* the register collapsed onto the last sample.
Counted(omitted, qubits, shots, bitstrings, support, final, collapsed) ==
    \E earlier \in [1..(shots - 1) -> support] :
       /\ state' = collapsed
       /\ last' = [NoCall EXCEPT
                     !.op = "measure", !.omitted = omitted,
                     !.qubits = qubits, !.shots = shots,
                     !.outcome = bitstrings[final + 1],
                     !.counts =
                         [key \in Range(bitstrings) |->
                             Cardinality({i \in 1..shots :
                                 bitstrings[Append(earlier, final)[i] + 1] = key})]]
       /\ ops' = ops + 1
       /\ UNCHANGED num_qubits

\* measure from its first line, for every number of shots.
Sample(omitted, qubits, drawn) ==
    \E shots \in -1..MaxShots :
       IF shots <= 0 THEN MeasureRaises(omitted, qubits, shots, "ValueError")
       ELSE IF drawn.error # "none" THEN MeasureRaises(omitted, qubits, shots, drawn.error)
       \* probabilities / 0.0 is NaN, which rng.choice rejects
       ELSE IF drawn.support = {} THEN MeasureRaises(omitted, qubits, shots, "ValueError")
       ELSE \E final \in drawn.support :
              Counted(omitted, qubits, shots, drawn.bitstrings, drawn.support, final,
                      CollapseState(state, drawn.qubit_tuple, drawn.bitstrings[final + 1],
                                    num_qubits))

\* QuantumCircuit.measure
Measure(omitted, qubits) ==
    Sample(omitted, qubits, Distribution(state, omitted, qubits, num_qubits))

\* MeasurementResult.most_likely, called on the result measure returned
MostLikelyCall ==
    /\ last.op = "measure"
    /\ last.error = "none"
    /\ last' = [last EXCEPT !.op = "most_likely", !.most_likely = MostLikely(last.counts)]
    /\ UNCHANGED <<num_qubits, state, ops>>

QubitArgs ==
    {[omitted |-> TRUE, qubits |-> <<>>]}
        \cup {[omitted |-> FALSE, qubits |-> qs] : qs \in QubitLists}

\* QuantumCircuit._collapse_state, called directly with a well-formed tuple
\* and a bit string of its width
CollapseStateCall(qubits, bitstring) ==
    /\ state' = CollapseState(state, qubits, bitstring, num_qubits)
    /\ last' = [NoCall EXCEPT !.op = "_collapse_state", !.qubits = qubits,
                              !.outcome = bitstring]
    /\ ops' = ops + 1
    /\ UNCHANGED num_qubits

BitStrings(width) == [1..width -> {0, 1}]

Next ==
    \/ CanCall /\ (\E q \in QubitIndex : Hadamard(q)) /\ UNCHANGED reasoner
    \/ CanCall /\ (\E q \in QubitIndex : PauliX(q)) /\ UNCHANGED reasoner
    \/ CanCall /\ (\E c \in QubitIndex, t \in QubitIndex : Cnot(c, t))
               /\ UNCHANGED reasoner
    \/ CanCall /\ (\E u \in DOMAIN CustomUnitaries, qs \in QubitLists : ApplyCustom(u, qs))
               /\ UNCHANGED reasoner
    \/ CanCall /\ (\E a \in QubitArgs : ProbabilitiesCall(a.omitted, a.qubits))
               /\ UNCHANGED reasoner
    \/ CanCall /\ (\E a \in QubitArgs : Measure(a.omitted, a.qubits))
               /\ UNCHANGED reasoner
    \/ MostLikelyCall /\ UNCHANGED reasoner
    \/ Return /\ UNCHANGED reasoner

\* The public interface of QuantumCircuit and MeasurementResult.
Spec == Init /\ [][Next]_vars

NextInternal ==
    \/ Next
    \/ CanCall /\ (\E qs \in ValidLists :
                     \E bitstring \in BitStrings(IF qs = <<>> THEN num_qubits ELSE Len(qs)) :
                        CollapseStateCall(qs, bitstring))
               /\ UNCHANGED reasoner

\* The public interface and the helper _collapse_state called on its own.
SpecInternal == Init /\ [][NextInternal]_vars

----------------------------------------------------------------------------
\* The reasoner's interface.

StatementInputs == {"p", "q"}
ConfidenceInputs == {5, 10}
EvidenceInputs == {"", "e"}
OpInputs == {"NOT", "AND", "OR", "IMPLIES", "XOR"}
\* b_stmt of evaluate: a statement, or None
SecondOperands == {"q", ""}

\* The dict and the call record once assert_true or assert_false has returned
\* the proposition.
Asserted(name, statement, after) ==
    /\ WithinBounds(after)
    /\ _props' = after
    /\ reply' = [NoReply EXCEPT !.op = name, !.statement = statement,
                                !.prop = Get(after, statement)]
    /\ UNCHANGED circuit

\* TrinaryReasoner.assert_true, called
AssertTrueCall(statement, confidence, evidence) ==
    Asserted("assert_true", statement,
             ReasonerAssertTrue(_props, statement, confidence, evidence))

\* TrinaryReasoner.assert_false, called
AssertFalseCall(statement, confidence, evidence) ==
    Asserted("assert_false", statement,
             ReasonerAssertFalse(_props, statement, confidence, evidence))

\* TrinaryReasoner.query, called
QueryCall(statement) ==
    /\ reply' = [NoReply EXCEPT !.op = "query", !.statement = statement,
                                !.prop = Get(_props, statement)]
    /\ UNCHANGED <<_props, circuit>>

\* TrinaryReasoner.contradictions, called
ContradictionsCall ==
    /\ reply' = [NoReply EXCEPT !.op = "contradictions", !.list = Contradictions(_props)]
    /\ UNCHANGED <<_props, circuit>>

\* The dict and the call record once quarantine_contradicted has returned.
Quarantined(res) ==
    /\ _props' = res.props
    /\ reply' = [NoReply EXCEPT !.op = "quarantine_contradicted", !.list = res.quarantined]
    /\ UNCHANGED circuit

\* TrinaryReasoner.quarantine_contradicted, called
QuarantineContradictedCall == Quarantined(QuarantineContradicted(_props))

\* The call record once evaluate has returned or raised.
Evaluated(res) ==
    /\ reply' = [NoReply EXCEPT !.op = "evaluate", !.error = res.error, !.value = res.value]
    /\ UNCHANGED <<_props, circuit>>

\* TrinaryReasoner.evaluate, called
EvaluateCall(a_stmt, op, b_stmt) == Evaluated(Evaluate(_props, a_stmt, op, b_stmt))

InitReasoner == Init /\ num_qubits = 1

NextReasoner ==
    \/ \E statement \in StatementInputs, confidence \in ConfidenceInputs,
          evidence \in EvidenceInputs : AssertTrueCall(statement, confidence, evidence)
    \/ \E statement \in StatementInputs, confidence \in ConfidenceInputs,
          evidence \in EvidenceInputs : AssertFalseCall(statement, confidence, evidence)
    \/ \E statement \in StatementInputs : QueryCall(statement)
    \/ ContradictionsCall
    \/ QuarantineContradictedCall
    \/ \E a_stmt \in StatementInputs, op \in OpInputs, b_stmt \in SecondOperands :
          EvaluateCall(a_stmt, op, b_stmt)

\* The public interface of TrinaryReasoner.
SpecReasoner == InitReasoner /\ [][NextReasoner]_vars

----------------------------------------------------------------------------
\* What the claims speak of, stated without the program's index arithmetic.

\* The bit of qubit q in basis state b: qubit 0 is the leftmost of n bits.
QubitBit(b, q) == (b \div (2 ^ (num_qubits - 1 - q))) % 2

\* The basis state that differs from b in qubit q only.
FlipQubit(b, q) ==
    IF QubitBit(b, q) = 0 THEN b + 2 ^ (num_qubits - 1 - q)
    ELSE b - 2 ^ (num_qubits - 1 - q)

Basis == 0..(2 ^ num_qubits - 1)

\* The basis states whose bit at qubit qs[i] is s[i] for every i.
Consistent(qs, s) == {b \in Basis : \A i \in DOMAIN qs : QubitBit(b, qs[i]) = s[i]}

RECURSIVE Weight(_, _)
\* The sum of |amplitude|^2 numerators of st over the basis states in S.
Weight(st, S) ==
    IF S = {} THEN 0
    ELSE LET b == CHOOSE x \in S : TRUE
         IN  Abs2(st.amp[b]) + Weight(st, S \ {b})

\* The qubits the last call named: all of them, in index order, when omitted.
NamedQubits == IF last.omitted THEN [i \in 1..num_qubits |-> i - 1] ELSE last.qubits

Superposed(st) == Cardinality({b \in DOMAIN st.amp : st.amp[b] # CZero}) >= 2

Returned(op) == last.op = op /\ last.error = "none"

----------------------------------------------------------------------------
\* C2: most_likely returns a bit string with the highest count, and among
\* the bit strings that share the highest count the lexicographically
\* smallest one.
C2_MostLikelyTiesSmallest ==
    Returned("most_likely") =>
        /\ last.most_likely \in DOMAIN last.counts
        /\ \A t \in DOMAIN last.counts :
              /\ last.counts[t] <= last.counts[last.most_likely]
              /\ last.counts[t] = last.counts[last.most_likely]
                    => ~LexLess(t, last.most_likely)

\* C1: after measure on a non-empty list of distinct in-range qubits has
\* returned, probabilities over the same list gives the last-drawn outcome
\* probability 1 and every other bit string 0, and the full-register
\* distribution puts total probability 1 on the basis states consistent with
\* the outcome and 0 on every other basis state.
C1_MeasuredSubsetIsCertain ==
    (Returned("measure") /\ NamedQubits # <<>>) =>
        LET again == Probabilities(state, FALSE, NamedQubits, num_qubits)
            kept == Consistent(NamedQubits, last.outcome)
        IN  /\ again.error = "none"
            /\ last.outcome \in DOMAIN again.dist
            /\ \A s \in DOMAIN again.dist :
                  /\ again.dist[s][2] > 0
                  /\ again.dist[s][1] = (IF s = last.outcome THEN again.dist[s][2] ELSE 0)
            /\ state.den > 0
            /\ Weight(state, kept) = state.den
            /\ \A b \in Basis \ kept : Abs2(state.amp[b]) = 0

\* A measurement of qubit 1 alone of three, drawn twice with both outcomes
\* seen, that left qubits 0 and 1 both set: the entangled partner collapsed.
C1_Witness ==
    /\ Returned("measure")
    /\ num_qubits = 3
    /\ last.qubits = <<1>>
    /\ last.shots = 2
    /\ last.counts[<<0>>] = 1
    /\ last.outcome = <<1>>
    /\ state.amp[6] # CZero

\* A call the interface must reject.
MustReject(call) ==
    LET qs == call.qubits
        duplicate == Len(qs) # Cardinality(Range(qs))
        outside == \E i \in DOMAIN qs : qs[i] < 0 \/ qs[i] >= num_qubits
        rows == CustomUnitaries[call.unitary].m
    IN  \/ call.op \in {"hadamard", "pauli_x", "cnot", "apply_custom"}
              /\ (duplicate \/ outside)
        \/ call.op = "cnot" /\ qs[1] = qs[2]
        \/ call.op = "apply_custom"
              /\ \/ \E r \in DOMAIN rows : Len(rows[r]) # Len(rows)
                 \/ Len(rows) # 2 ^ Len(qs)
        \/ call.op = "measure" /\ ~call.omitted /\ (duplicate \/ outside)
        \/ call.op = "measure" /\ call.shots <= 0

\* C3: a call with duplicate or out-of-range qubit indices, a cnot with
\* control = target, an apply_custom with a matrix that is not square or not
\* of dimension 2^k, and a measure with shots <= 0 is rejected and leaves the
\* amplitude vector as it was.
C3_RejectedCallsKeepState ==
    [][MustReject(last') => (last'.error # "none" /\ state' = state)]_vars

\* A 2 x 2 matrix handed to apply_custom with two valid qubits was rejected
\* while the register was in superposition.
C3_Witness ==
    /\ last.op = "apply_custom"
    /\ last.unitary = "S"
    /\ last.qubits = <<1, 0>>
    /\ last.error = "ValueError"
    /\ Superposed(state)

\* C4: the squared magnitudes of the amplitude vector sum to 1 in every
\* state the public interface reaches; the zero vector is never reached.
C4_UnitNorm ==
    /\ state.den > 0
    /\ Weight(state, Basis) = state.den

\* A measurement of part of the register that saw two outcomes in two shots
\* and left a superposition: surviving amplitudes were rescaled.
C4_Witness ==
    /\ Returned("measure")
    /\ last.shots = 2
    /\ \E s \in DOMAIN last.counts : s # last.outcome /\ last.counts[s] = 1
    /\ Len(NamedQubits) < num_qubits
    /\ Superposed(state)

\* The qubits a call named: all of them, in index order, when omitted.
Named(call) == IF call.omitted THEN [i \in 1..num_qubits |-> i - 1] ELSE call.qubits

\* C5: probabilities over k >= 1 distinct in-range qubits, in any order,
\* returns exactly the 2^k bit strings of length k, and the value at s is the
\* sum of |amplitude|^2 over the basis states whose bit at qubit qubits[i] is
\* s[i], qubit 0 being the leftmost bit; with qubits omitted the result is
\* that for [0, ..., n-1].
C5_MarginalByRequestedOrder ==
    (Returned("probabilities") /\ NamedQubits # <<>>) =>
        /\ DOMAIN last.dist = [1..Len(NamedQubits) -> {0, 1}]
        /\ \A s \in DOMAIN last.dist :
              last.dist[s] = <<Weight(state, Consistent(NamedQubits, s)), state.den>>

\* A query over qubits [2, 0] of three with qubit 2 set and qubit 0 clear:
\* "10" has all the probability, "01" none.
C5_Witness ==
    /\ Returned("probabilities")
    /\ num_qubits = 3
    /\ last.qubits = <<2, 0>>
    /\ last.dist[<<1, 0>>][1] = last.dist[<<1, 0>>][2]
    /\ last.dist[<<0, 1>>][1] = 0

RECURSIVE Total(_, _)
\* The sum of counts over the keys in S.
Total(counts, S) ==
    IF S = {} THEN 0
    ELSE LET s == CHOOSE x \in S : TRUE
         IN  counts[s] + Total(counts, S \ {s})

\* C6: measure returns non-negative integer counts that sum to shots, and
\* every bit string with a non-zero count, the last-drawn one among them, has
\* non-zero marginal probability in the state as it was before the call.
C6_CountsFromPreCallState ==
    [][(last'.op = "measure" /\ last'.error = "none" /\ Named(last') # <<>>) =>
          /\ last'.shots >= 1
          /\ \A s \in DOMAIN last'.counts :
                /\ last'.counts[s] \in Nat
                /\ last'.counts[s] > 0 => Weight(state, Consistent(Named(last'), s)) > 0
          /\ Total(last'.counts, DOMAIN last'.counts) = last'.shots
          /\ last'.counts[last'.outcome] > 0]_vars

\* Two shots over qubits [1, 0], after a single gate, that drew two different
\* strings: the other two strings had probability zero and were not drawn.
C6_Witness ==
    /\ Returned("measure")
    /\ last.qubits = <<1, 0>>
    /\ last.shots = 2
    /\ Cardinality({s \in DOMAIN last.counts : last.counts[s] = 1}) = 2
    /\ Cardinality(DOMAIN last.counts) = 4
    /\ ops = 2

Fresh(n) == [amp |-> [i \in 0..(2 ^ n - 1) |-> IF i = 0 THEN COne ELSE CZero], den |-> 1]

\* (|00> + |10>) / sqrt(2)
PlusZero == [amp |-> [i \in 0..3 |-> IF i \in {0, 2} THEN COne ELSE CZero], den |-> 2]

\* C7: pauli_x(q) moves the amplitude of every basis state b to the basis
\* state that differs from b in bit q only; cnot(control, target) moves the
\* amplitude of b to b with bit target flipped when bit control of b is 1 and
\* leaves it in place otherwise, whichever of control and target is larger;
\* hadamard(0) then cnot(0, 1) on a fresh 2-qubit register gives "00" and
\* "11" probability 1/2 each and "01" and "10" probability 0.
C7_GatesActOnOperandQubits ==
    [][/\ (last'.op = "pauli_x" /\ last'.error = "none") =>
            /\ state'.den = state.den
            /\ \A b \in Basis : state'.amp[FlipQubit(b, last'.qubits[1])] = state.amp[b]
       /\ (last'.op = "cnot" /\ last'.error = "none") =>
            /\ state'.den = state.den
            /\ \A b \in Basis :
                  state'.amp[IF QubitBit(b, last'.qubits[1]) = 1
                             THEN FlipQubit(b, last'.qubits[2]) ELSE b] = state.amp[b]
       /\ (num_qubits = 2 /\ state = Fresh(2)
              /\ last'.op = "hadamard" /\ last'.qubits = <<0>>) => state' = PlusZero
       /\ (num_qubits = 2 /\ state = PlusZero
              /\ last'.op = "cnot" /\ last'.qubits = <<0, 1>>) =>
            Probabilities(state', TRUE, <<>>, 2).dist =
                (<<0, 0>> :> <<1, 2>> @@ <<0, 1>> :> <<0, 2>>
                    @@ <<1, 0>> :> <<0, 2>> @@ <<1, 1>> :> <<1, 2>>)]_vars

\* cnot(2, 0) on three qubits, control above target, that flipped qubit 0:
\* the register holds |101>.
C7_Witness ==
    /\ Returned("cnot")
    /\ num_qubits = 3
    /\ last.qubits = <<2, 0>>
    /\ state.amp[5] # CZero

\* C8: a probabilities call, whatever its argument and whether it returns or
\* raises, leaves the amplitude vector and the qubit count as they were.
C8_ProbabilitiesIsPure ==
    [][last'.op = "probabilities" => (state' = state /\ num_qubits' = num_qubits)]_vars

\* A query that raised IndexError, made while the register was in
\* superposition.
C8_Witness ==
    /\ last.op = "probabilities"
    /\ last.error = "IndexError"
    /\ Superposed(state)

\* C9: measure with an explicitly empty qubit list and shots >= 1 is either
\* rejected or leaves the amplitude vector unchanged.
C9_EmptyMeasureKeepsState ==
    [][(last'.op = "measure" /\ ~last'.omitted /\ last'.qubits = <<>>
            /\ last'.shots >= 1) =>
          (last'.error # "none" \/ state' = state)]_vars

\* C10: _collapse_state onto an outcome of marginal probability zero raises
\* an error and leaves the state as it was; it never installs the zero vector.
C10_ZeroProbabilityCollapseFails ==
    [][(last'.op = "_collapse_state" /\ last'.qubits # <<>>
            /\ Weight(state, Consistent(last'.qubits, last'.outcome)) = 0) =>
          /\ last'.error # "none"
          /\ state' = state
          /\ Weight(state', Basis) # 0]_vars

\* a * conj(b)
CMulConj(a, b) == <<a[1] * b[1] + a[2] * b[2], a[2] * b[1] - a[1] * b[2]>>

\* C11: measure on a non-empty list of qubits, in any order and prefix of the
\* register or not, with last-drawn outcome o leaves every amplitude at its
\* own basis index: for basis states b, b2 consistent with o,
\* new[b] * old[b2] = new[b2] * old[b] and new[b] is old[b] times a positive
\* real number; every amplitude not consistent with o is 0.
C11_CollapseIsProjection ==
    [][(last'.op = "measure" /\ last'.error = "none" /\ Named(last') # <<>>) =>
          LET kept == Consistent(Named(last'), last'.outcome)
          IN  /\ \A b \in kept, b2 \in kept :
                    CMul(state'.amp[b], state.amp[b2]) = CMul(state'.amp[b2], state.amp[b])
              /\ \A b \in kept :
                    /\ CMulConj(state'.amp[b], state.amp[b])[2] = 0
                    /\ CMulConj(state'.amp[b], state.amp[b])[1] >= 0
                    /\ state.amp[b] # CZero =>
                          CMulConj(state'.amp[b], state.amp[b])[1] > 0
              /\ \E b \in kept : state'.amp[b] # CZero
              /\ state'.den > 0
              /\ \A b \in Basis \ kept : state'.amp[b] = CZero]_vars

\* A measurement of qubits [2, 0] of three, neither in index order nor a
\* prefix, that drew "10" and then "00" from a register with qubits 2 and 1
\* in superposition: qubit 1 is still in superposition, at indices 0 and 2.
C11_Witness ==
    /\ Returned("measure")
    /\ num_qubits = 3
    /\ last.qubits = <<2, 0>>
    /\ last.shots = 2
    /\ last.counts[<<1, 0>>] = 1
    /\ last.outcome = <<0, 0>>
    /\ state.amp[0] # CZero
    /\ state.amp[2] # CZero

\* a is b or a proper beginning of b.
IsPrefix(a, b) == Len(a) <= Len(b) /\ SubSeq(b, 1, Len(a)) = a

\* The statements contradictions() returns propositions for.
Contradicted(props) == Range(Statements(Contradictions(props)))

\* C12: assert_true on a statement whose truth is FALSE and assert_false on
\* one whose truth is TRUE append exactly one contradiction entry to that
\* proposition; no operation of the reasoner removes a proposition or
\* shortens or rewrites a contradiction list, so a statement contradictions()
\* has returned is returned after every later operation;
\* quarantine_contradicted returns exactly those statements, in dict order,
\* sets their truth to UNKNOWN and their confidence to 0 and changes nothing
\* else; query, evaluate and contradictions change nothing.
C12_ContradictionsPreserved ==
    [][/\ reply'.op \in {"query", "evaluate", "contradictions"} => _props' = _props
       /\ \/ reply'.op = "assert_true" /\ Get(_props, reply'.statement).truth = T_FALSE
          \/ reply'.op = "assert_false" /\ Get(_props, reply'.statement).truth = T_TRUE
          => Len(Get(_props', reply'.statement).contradictions)
                = Len(Get(_props, reply'.statement).contradictions) + 1
       /\ reply'.op = "quarantine_contradicted" =>
             /\ reply'.list = Statements(Contradictions(_props))
             /\ Range(reply'.list) = Contradicted(_props')
             /\ _props' = [i \in DOMAIN _props |->
                              IF _props[i].contradictions # <<>>
                              THEN [_props[i] EXCEPT !.truth = UNKNOWN, !.confidence = 0]
                              ELSE _props[i]]
       /\ _props' # _props =>
             /\ \A statement \in StatementInputs :
                   /\ Known(_props, statement) => Known(_props', statement)
                   /\ IsPrefix(Get(_props, statement).contradictions,
                               Get(_props', statement).contradictions)
             /\ Contradicted(_props) \subseteq Contradicted(_props')]_vars

\* quarantine_contradicted has returned both statements, each contradicted
\* once: both propositions are UNKNOWN with confidence 0 and keep their entry.
C12_Witness ==
    /\ reply.op = "quarantine_contradicted"
    /\ Len(reply.list) = 2
    /\ \A i \in DOMAIN _props :
          /\ _props[i].truth = UNKNOWN
          /\ _props[i].confidence = 0
          /\ Len(_props[i].contradictions) = 1

====
